---- MODULE Spec2Model ----
(***************************************************************************)
(* Model of pwa-install.js: the install affordance controller.            *)
(*                                                                         *)
(* The state is the module-level variable deferredPrompt, the part of the  *)
(* document the script touches (the children of #taskbarContainer with id  *)
(* pwaInstallBtn, the instruction modals appended to body), the pending    *)
(* timers and suspended click handlers, and the read-only environment      *)
(* (navigator.userAgent, navigator.platform, navigator.maxTouchPoints,     *)
(* the display-mode media query, navigator.standalone), and the state of   *)
(* the service worker registration.                                        *)
(*                                                                         *)
(* Strings the code inspects are sequences of one-character strings, so    *)
(* that toLowerCase / toUpperCase / regex test / indexOf are computed.     *)
(***************************************************************************)
EXTENDS Integers, Sequences, FiniteSets, TLC

\* ---------------------------------------------------------------- bounds
MaxPromptCalls == 2  \* prompt() invocations on the events still reachable
MaxButtons == 2      \* #pwaInstallBtn elements attached at once
MaxDialogs == 2      \* instruction modals attached at once

\* ------------------------------------------------------- string functions
LowerLetters == <<"a","b","c","d","e","f","g","h","i","j","k","l","m",
                  "n","o","p","q","r","s","t","u","v","w","x","y","z">>
UpperLetters == <<"A","B","C","D","E","F","G","H","I","J","K","L","M",
                  "N","O","P","Q","R","S","T","U","V","W","X","Y","Z">>

IndexIn(c, letters) ==
    IF \E i \in 1..Len(letters) : letters[i] = c
    THEN CHOOSE i \in 1..Len(letters) : letters[i] = c
    ELSE 0

toLowerCase(s) ==
    [i \in 1..Len(s) |->
        IF IndexIn(s[i], UpperLetters) # 0
        THEN LowerLetters[IndexIn(s[i], UpperLetters)] ELSE s[i]]

toUpperCase(s) ==
    [i \in 1..Len(s) |->
        IF IndexIn(s[i], LowerLetters) # 0
        THEN UpperLetters[IndexIn(s[i], LowerLetters)] ELSE s[i]]

\* String.prototype.indexOf(sub), 0-based, -1 when absent
indexOf(s, sub) ==
    LET hits == {i \in 1..(Len(s) - Len(sub) + 1) :
                    \A j \in 1..Len(sub) : s[i + j - 1] = sub[j]}
    IN  IF hits = {} THEN -1
        ELSE (CHOOSE i \in hits : \A k \in hits : i <= k) - 1

\* /iphone|ipad|ipod/.test(s)
\* variant: the pattern without its iphone alternative
IosPattern_NoIphone ==
    { <<"i","p","a","d">>, <<"i","p","o","d">> }
IosPattern ==
    { <<"i","p","h","o","n","e">>, <<"i","p","a","d">>, <<"i","p","o","d">> }

testIosPattern(s) == \E alt \in IosPattern : indexOf(s, alt) >= 0

\* ------------------------------------------------- environment values
MacIntel   == <<"M","a","c","I","n","t","e","l">>
PlatIPhone == <<"i","P","h","o","n","e">>
Win32      == <<"W","i","n","3","2">>
Platforms  == {MacIntel, PlatIPhone, Win32}

UaIPhone   == <<"(","i","P","h","o","n","e",";">>
UaIPad     == <<"(","i","P","a","d",";">>
UaMac      == <<"(","M","a","c","i","n","t","o","s","h",";">>
UaWindows  == <<"(","W","i","n","d","o","w","s",";">>
UserAgents == {UaIPhone, UaIPad, UaMac, UaWindows}

TouchPoints == {0, 1, 5}

\* navigator.standalone: property absent, or present with a boolean value
NavStandaloneValues == {"absent", "true", "false"}

\* The browsers the script's comments name: Safari on iOS, on iPad and on
\* Mac (no beforeinstallprompt), Chrome/Edge on Android/PC.  An iPad reports
\* the desktop user agent and platform MacIntel with touch points.  Only
\* Safari on iOS/iPad defines navigator.standalone.
Devices ==
    { [userAgent |-> UaIPhone,  platform |-> PlatIPhone, maxTouchPoints |-> 5, hasStandalone |-> TRUE],
      [userAgent |-> UaMac,     platform |-> MacIntel,   maxTouchPoints |-> 5, hasStandalone |-> TRUE],
      [userAgent |-> UaMac,     platform |-> MacIntel,   maxTouchPoints |-> 0, hasStandalone |-> FALSE],
      [userAgent |-> UaWindows, platform |-> Win32,      maxTouchPoints |-> 0, hasStandalone |-> FALSE] }

Outcomes == {"accepted", "dismissed"}

\* An element is named by a small number while it is attached to the
\* document; 0 is null for getElementById, and names a detached button where
\* a suspended click handler still holds one (remove() on it does nothing).
\* A listener or timer whose modal is detached has no effect left and is
\* dropped, as is a second removal timer for a modal that already has one.
ButtonIds == 1..MaxButtons
DialogIds == 1..MaxDialogs

VARIABLES
    userAgent,        \* window.navigator.userAgent
    platform,         \* navigator.platform
    maxTouchPoints,   \* navigator.maxTouchPoints
    displayModeStandalone, \* matchMedia('(display-mode: standalone)').matches
    navStandalone,    \* window.navigator.standalone
    container,        \* document.getElementById('taskbarContainer') exists
    events,           \* the beforeinstallprompt events the script can still reach
                      \* (stored, or awaited by a suspended click handler), oldest
                      \* first; each [defaultPrevented, promptCalls, userChoice,
                      \* awaiting: the buttons of the handlers suspended on it]
    deferredPrompt,   \* 0 = undefined/null, else the position in events of the stored event
    taskbar,          \* #pwaInstallBtn elements in the container, in document order
    createdBy,        \* attached button -> the caller of the createInstallButton that made it
    animTimers,       \* attached buttons whose 100 ms entry timer is pending (opacity still 0)
    serviceWorker,    \* 'serviceWorker' in navigator
    worker,           \* the registration: [load: the window load event, registerCalls:
                      \* calls of register('./sw.js'), registration: the promise it returned]
    timer,            \* the 1000 ms proactive timer: "none", "pending", "fired"
    body,             \* instruction modals in document.body, in document order
    dialogType,       \* modal -> deviceType it was rendered for
    closeListeners,   \* modal -> modals its #closeIosMsg click listeners remove, in listener order
    fadeTimers,       \* modals with a pending 300 ms removal timer, in firing order
    last              \* the handler that ran last: the buttons it created, was clicked
                      \* on or removed, the outcome it logged, whether it threw

envVars == <<userAgent, platform, maxTouchPoints, displayModeStandalone,
             navStandalone, container>>
promptVars == <<events, deferredPrompt>>
buttonVars == <<taskbar, createdBy, animTimers>>
dialogVars == <<body, dialogType, closeListeners, fadeTimers>>
workerVars == <<serviceWorker, worker>>
vars == <<envVars, promptVars, buttonVars, dialogVars, workerVars, timer, last>>

Ran(op) == [op |-> op, btn |-> {}, outcome |-> "none", threw |-> FALSE]

Range(seq) == {seq[i] : i \in 1..Len(seq)}
Remove(seq, x) == SelectSeq(seq, LAMBDA y : y # x)
Min(S) == CHOOSE x \in S : \A y \in S : x <= y
RECURSIVE Sum(_)
Sum(seq) == IF seq = <<>> THEN 0 ELSE Head(seq) + Sum(Tail(seq))

\* ------------------------------------------------ platform detection
\* detectAndShowInstructions: the flags it computes
detect_isIos == testIosPattern(toLowerCase(userAgent))
detect_isIpadOS == platform = MacIntel /\ maxTouchPoints > 1
\* variant: isMac without the "&& !isIos && !isIpadOS" exclusion
detect_isMac_NoExclusion ==
    indexOf(toUpperCase(platform), <<"M","A","C">>) >= 0
detect_isMac ==
    /\ indexOf(toUpperCase(platform), <<"M","A","C">>) >= 0
    /\ ~detect_isIos
    /\ ~detect_isIpadOS
isInStandaloneMode == navStandalone # "absent" /\ navStandalone = "true"

\* detectAndShowInstructions: the deviceType it passes to
\* showInstallInstructions, "none" when it renders nothing
\* variant: the user agent tested without toLowerCase()
detectAndShowInstructions_CaseSensitive ==
    LET ios == testIosPattern(userAgent)
        mac == /\ indexOf(toUpperCase(platform), <<"M","A","C">>) >= 0
               /\ ~ios
               /\ ~detect_isIpadOS
    IN  IF (ios \/ detect_isIpadOS) /\ ~isInStandaloneMode
        THEN (IF detect_isIpadOS THEN "iPad" ELSE "iOS")
        ELSE IF mac /\ ~isInStandaloneMode THEN "Mac" ELSE "none"
detectAndShowInstructions ==
    IF (detect_isIos \/ detect_isIpadOS) /\ ~isInStandaloneMode
    THEN (IF detect_isIpadOS THEN "iPad" ELSE "iOS")
    ELSE IF detect_isMac /\ ~isInStandaloneMode THEN "Mac" ELSE "none"

\* the startup check
\* variant: the startup check without "|| window.navigator.standalone === true"
isStandalone_MediaOnly == displayModeStandalone
isStandalone == displayModeStandalone \/ navStandalone = "true"
startup_isIpadOS == platform = MacIntel /\ maxTouchPoints > 1
startup_isIos == testIosPattern(toLowerCase(userAgent)) \/ startup_isIpadOS
startup_isMac == indexOf(toUpperCase(platform), <<"M","A","C">>) >= 0
\* variant: the startup check without "if (isIos || isMac)"
startupSchedulesTimer_AnyPlatform == ~isStandalone
startupSchedulesTimer == ~isStandalone /\ (startup_isIos \/ startup_isMac)

\* ------------------------------------------------------- event objects
\* the BeforeInstallPromptEvent as the listener receives it
NewEvent == [defaultPrevented |-> FALSE, promptCalls |-> 0,
             userChoice |-> "pending", awaiting |-> <<>>]

\* prompt() invocations so far on the events still reachable
Prompted(evs) == Sum([i \in DOMAIN evs |-> evs[i].promptCalls])

\* suspended handlers holding a removed button now hold a detached one
DetachedBtn(evs, gone) ==
    [i \in DOMAIN evs |->
        [evs[i] EXCEPT !.awaiting =
            [j \in DOMAIN evs[i].awaiting |->
                IF evs[i].awaiting[j] \in gone THEN 0 ELSE evs[i].awaiting[j]]]]

\* positions of evs that stay reachable when position dp is the stored one
Reachable(evs, dp) == {i \in DOMAIN evs : i = dp \/ evs[i].awaiting # <<>>}

\* evs without its unreachable events, and where position dp moves to
Collect(evs, dp) ==
    LET keep == Reachable(evs, dp)
        pick[n \in 0..Len(evs)] ==
            IF n = 0 THEN <<>>
            ELSE IF n \in keep THEN Append(pick[n - 1], evs[n]) ELSE pick[n - 1]
    IN  pick[Len(evs)]
Moved(evs, dp) ==
    IF dp = 0 THEN 0 ELSE Cardinality({i \in Reachable(evs, dp) : i <= dp})

\* ------------------------------------------------------------ the button
\* document.getElementById(installBtnId)
getInstallBtn == IF taskbar = <<>> THEN 0 ELSE Head(taskbar)

\* variant: createInstallButton without the "Already exists" return
\* createInstallButton: a missing container or an existing button ends it early
createInstallButton_NoIdGuard ==
    IF ~container THEN UNCHANGED <<taskbar, animTimers>>
    ELSE /\ ButtonIds \ Range(taskbar) # {}
         /\ LET btn == Min(ButtonIds \ Range(taskbar))
            IN  /\ taskbar' = Append(taskbar, btn)
                /\ animTimers' = animTimers \cup {btn}
\* variant: the button is built and its entry timer set before the container is looked up
createInstallButton_TimerBeforeContainerTest ==
    IF getInstallBtn # 0 THEN UNCHANGED <<taskbar, animTimers>>
    ELSE /\ ButtonIds \ Range(taskbar) # {}
         /\ LET btn == Min(ButtonIds \ Range(taskbar))
            IN  /\ taskbar' = IF container THEN Append(taskbar, btn) ELSE taskbar
                /\ animTimers' = animTimers \cup {btn}
createInstallButton ==
    IF ~container THEN UNCHANGED <<taskbar, animTimers>>
    ELSE IF getInstallBtn # 0 THEN UNCHANGED <<taskbar, animTimers>>
    ELSE /\ ButtonIds \ Range(taskbar) # {}
         /\ LET btn == Min(ButtonIds \ Range(taskbar))
            IN  /\ taskbar' = Append(taskbar, btn)
                /\ animTimers' = animTimers \cup {btn}

\* the buttons a step appended, and who made them
Created == Range(taskbar') \ Range(taskbar)
MadeBy(caller) ==
    [b \in ButtonIds |-> IF b \in Created THEN caller ELSE createdBy[b]]
\* btn.remove(): the element leaves the document
Detached(gone) ==
    /\ taskbar' = SelectSeq(taskbar, LAMBDA x : x \notin gone)
    /\ createdBy' = [b \in ButtonIds |-> IF b \in gone THEN "none" ELSE createdBy[b]]
    /\ animTimers' = animTimers \ gone

\* ------------------------------------------------------------ the dialog
showInstallInstructions(deviceType) ==
    /\ Len(body) < MaxDialogs
    /\ LET modal == Min(DialogIds \ Range(body))
           closeIosMsg == Head(Append(body, modal))  \* first match in document order
       IN  /\ body' = Append(body, modal)
           /\ dialogType' = [dialogType EXCEPT ![modal] = deviceType]
           /\ closeListeners' =
                  [closeListeners EXCEPT ![closeIosMsg] = Append(@, modal)]
    /\ UNCHANGED fadeTimers

\* ---------------------------------------------------------------- Init
\* the document and the script's state once the script has run to its end;
\* the container is in the page or it is not, for the whole run
Loaded ==
    /\ container \in BOOLEAN
    /\ events = <<>>
    /\ deferredPrompt = 0
    /\ taskbar = <<>>
    /\ createdBy = [b \in ButtonIds |-> "none"]
    /\ animTimers = {}
    /\ worker = [load |-> "pending", registerCalls |-> 0, registration |-> "none"]
    /\ timer = IF startupSchedulesTimer THEN "pending" ELSE "none"
    /\ body = <<>>
    /\ dialogType = [d \in DialogIds |-> "none"]
    /\ closeListeners = [d \in DialogIds |-> <<>>]
    /\ fadeTimers = <<>>
    /\ last = Ran("startup")

\* in one of the named browsers, in a tab or as the installed app
Browser ==
    \E device \in Devices, installed \in BOOLEAN :
        /\ userAgent = device.userAgent
        /\ platform = device.platform
        /\ maxTouchPoints = device.maxTouchPoints
        /\ displayModeStandalone = installed
        /\ navStandalone = IF ~device.hasStandalone THEN "absent"
                           ELSE IF installed THEN "true" ELSE "false"

\* the page without navigator.serviceWorker (an insecure origin): the script
\* adds no load listener and the install flow is all there is
Init ==
    /\ Browser
    /\ serviceWorker = FALSE
    /\ Loaded

\* the page with or without navigator.serviceWorker, the load event still to come
InitWorker ==
    /\ Browser
    /\ serviceWorker \in BOOLEAN
    /\ Loaded

\* under any combination of the environment signals
InitSignals ==
    /\ userAgent \in UserAgents
    /\ platform \in Platforms
    /\ maxTouchPoints \in TouchPoints
    /\ displayModeStandalone \in BOOLEAN
    /\ navStandalone \in NavStandaloneValues
    /\ serviceWorker = FALSE
    /\ Loaded

\* ------------------------------------------------------------- handlers
\* window 'beforeinstallprompt' listener
\* variant: the listener without e.preventDefault()
BeforeInstallPrompt_NoPreventDefault ==
    LET e   == NewEvent
        evs == Append(events, e)
    IN  /\ events' = Collect(evs, Len(evs))
        /\ deferredPrompt' = Moved(evs, Len(evs))
        /\ createInstallButton
        /\ createdBy' = MadeBy("beforeinstallprompt")
        /\ last' = [Ran("beforeinstallprompt") EXCEPT !.btn = Created]
        /\ UNCHANGED <<envVars, dialogVars, workerVars, timer>>
BeforeInstallPrompt ==
    LET e   == [NewEvent EXCEPT !.defaultPrevented = TRUE]
        evs == Append(events, e)
    IN  /\ events' = Collect(evs, Len(evs))
        /\ deferredPrompt' = Moved(evs, Len(evs))
        /\ createInstallButton
        /\ createdBy' = MadeBy("beforeinstallprompt")
        /\ last' = [Ran("beforeinstallprompt") EXCEPT !.btn = Created]
        /\ UNCHANGED <<envVars, dialogVars, workerVars, timer>>

\* the 1000 ms timer set by the startup check
ProactiveTimer ==
    /\ timer = "pending"
    /\ timer' = "fired"
    /\ createInstallButton
    /\ createdBy' = MadeBy("timer")
    /\ last' = [Ran("timer") EXCEPT !.btn = Created]
    /\ UNCHANGED <<envVars, promptVars, dialogVars, workerVars>>

\* the button's click listener up to the await, when a prompt is stored.  A
\* prompt() after the first on the same event is rejected by the browser:
\* either it throws and the handler ends there, or it returns a rejected
\* promise nobody awaits and the handler goes on to await userChoice.  An
\* await on an already resolved userChoice resumes at once.
ClickPrompt(b) ==
    /\ b \in Range(taskbar)
    /\ deferredPrompt # 0
    /\ Prompted(events) < MaxPromptCalls
    /\ LET e == deferredPrompt
           prompted == [events EXCEPT ![e].promptCalls = @ + 1]
       IN  \E throws \in (IF events[e].promptCalls = 0 THEN {FALSE} ELSE BOOLEAN) :
             IF throws
             THEN /\ events' = prompted
                  /\ UNCHANGED <<deferredPrompt, buttonVars>>
                  /\ last' = [Ran("click") EXCEPT !.btn = {b}, !.threw = TRUE]
             ELSE IF events[e].userChoice = "pending"
             THEN /\ events' = [prompted EXCEPT ![e].awaiting = Append(@, b)]
                  /\ UNCHANGED <<deferredPrompt, buttonVars>>
                  /\ last' = [Ran("click") EXCEPT !.btn = {b}]
             ELSE /\ events' = Collect(DetachedBtn(prompted, {b}), 0)
                  /\ deferredPrompt' = 0
                  /\ Detached({b})
                  /\ last' = [Ran("click") EXCEPT !.btn = {b},
                                                  !.outcome = events[e].userChoice]
    /\ UNCHANGED <<envVars, dialogVars, workerVars, timer>>

\* the button's click listener when no prompt is stored
\* variant: the fallback branch also runs btn.remove()
ClickFallback_RemovesButton(b) ==
    /\ b \in Range(taskbar)
    /\ deferredPrompt = 0
    /\ LET deviceType == detectAndShowInstructions
       IN  IF deviceType # "none"
           THEN showInstallInstructions(deviceType)
           ELSE UNCHANGED dialogVars
    /\ Detached({b})
    /\ last' = [Ran("fallback") EXCEPT !.btn = {b}]
    /\ UNCHANGED <<envVars, promptVars, workerVars, timer>>
ClickFallback(b) ==
    /\ b \in Range(taskbar)
    /\ deferredPrompt = 0
    /\ LET deviceType == detectAndShowInstructions
       IN  IF deviceType # "none"
           THEN showInstallInstructions(deviceType)
           ELSE UNCHANGED dialogVars
    /\ last' = [Ran("fallback") EXCEPT !.btn = {b}]
    /\ UNCHANGED <<envVars, promptVars, buttonVars, workerVars, timer>>

\* userChoice of the event at position e resolves: every click handler
\* suspended on it resumes after the await, in suspension order, before any
\* other event is handled.  Each logs the outcome, nulls deferredPrompt and
\* removes its own button.
\* variant: btn.remove() only when the outcome is accepted
UserChoice_AcceptedOnly(e, outcome) ==
    /\ e \in DOMAIN events
    /\ events[e].promptCalls > 0
    /\ events[e].userChoice = "pending"
    /\ LET resumed == events[e].awaiting
           gone    == IF outcome = "accepted" THEN Range(resumed) \ {0} ELSE {}
           dp      == IF resumed # <<>> THEN 0 ELSE deferredPrompt
           evs     == DetachedBtn([events EXCEPT ![e].userChoice = outcome,
                                                 ![e].awaiting = <<>>], gone)
       IN  /\ events' = Collect(evs, dp)
           /\ deferredPrompt' = Moved(evs, dp)
           /\ Detached(gone)
           /\ last' = [Ran("userChoice") EXCEPT !.btn = Range(resumed),
                                                  !.outcome = outcome]
    /\ UNCHANGED <<envVars, dialogVars, workerVars, timer>>
UserChoice(e, outcome) ==
    /\ e \in DOMAIN events
    /\ events[e].promptCalls > 0
    /\ events[e].userChoice = "pending"
    /\ LET resumed == events[e].awaiting
           gone    == Range(resumed) \ {0}
           dp      == IF resumed # <<>> THEN 0 ELSE deferredPrompt
           evs     == DetachedBtn([events EXCEPT ![e].userChoice = outcome,
                                                 ![e].awaiting = <<>>], gone)
       IN  /\ events' = Collect(evs, dp)
           /\ deferredPrompt' = Moved(evs, dp)
           /\ Detached(gone)
           /\ last' = [Ran("userChoice") EXCEPT !.btn = Range(resumed),
                                                  !.outcome = outcome]
    /\ UNCHANGED <<envVars, dialogVars, workerVars, timer>>

\* window 'appinstalled' listener
\* variant: btn.remove() without the "if (btn)" test throws on null
AppInstalled_NoNullGuard ==
    /\ LET btn == getInstallBtn
       IN  /\ Detached({btn} \ {0})
           /\ events' = DetachedBtn(events, {btn} \ {0})
           /\ last' = [Ran("appinstalled") EXCEPT !.btn = {btn} \ {0},
                                                    !.threw = (btn = 0)]
    /\ UNCHANGED <<envVars, deferredPrompt, dialogVars, workerVars, timer>>
AppInstalled ==
    /\ LET btn == getInstallBtn
       IN  /\ IF btn # 0
              THEN /\ Detached({btn})
                   /\ events' = DetachedBtn(events, {btn})
              ELSE UNCHANGED <<buttonVars, events>>
           /\ last' = [Ran("appinstalled") EXCEPT !.btn = {btn} \ {0}]
    /\ UNCHANGED <<envVars, deferredPrompt, dialogVars, workerVars, timer>>

\* click on the GOT IT button inside modal d: every listener attached to
\* that button fades its own modal and sets a 300 ms timer to remove it
RECURSIVE Schedule(_, _)
Schedule(timers, modals) ==
    IF modals = <<>> THEN timers
    ELSE Schedule(IF Head(modals) \in Range(timers) THEN timers
                  ELSE Append(timers, Head(modals)),
                  Tail(modals))

GotIt(d) ==
    /\ d \in Range(body)
    /\ fadeTimers' = Schedule(fadeTimers, closeListeners[d])
    /\ last' = Ran("gotit")
    /\ UNCHANGED <<envVars, promptVars, buttonVars, workerVars, timer,
                   body, dialogType, closeListeners>>

\* a fade-out timer fires: modal.remove()
FadeTimer ==
    /\ fadeTimers # <<>>
    /\ LET modal == Head(fadeTimers)
       IN  /\ body' = Remove(body, modal)
           /\ fadeTimers' = Remove(Tail(fadeTimers), modal)
           /\ dialogType' = [dialogType EXCEPT ![modal] = "none"]
           /\ closeListeners' = [d \in DialogIds |->
                                IF d = modal THEN <<>>
                                ELSE Remove(closeListeners[d], modal)]
    /\ last' = Ran("fade")
    /\ UNCHANGED <<envVars, promptVars, buttonVars, workerVars, timer>>

\* the 100 ms entry timer of button b fires: opacity 1, translateY(0).  The
\* timer of a button that has left the document styles a detached element
\* and is dropped with it.
AnimationTimer(b) ==
    /\ b \in animTimers
    /\ animTimers' = animTimers \ {b}
    /\ last' = [Ran("animation") EXCEPT !.btn = {b}]
    /\ UNCHANGED <<envVars, promptVars, taskbar, createdBy, dialogVars,
                   workerVars, timer>>

\* ------------------------------------------------- worker registration
\* window 'load' listener, added only when 'serviceWorker' in navigator
Load ==
    /\ serviceWorker
    /\ worker.load = "pending"
    /\ worker' = [load |-> "fired",
                  registerCalls |-> worker.registerCalls + 1,
                  registration |-> "pending"]
    /\ last' = Ran("load")
    /\ UNCHANGED <<envVars, promptVars, buttonVars, dialogVars, serviceWorker, timer>>

\* the promise of register() settles: .then logs the scope, .catch the error
\* variant: the catch callback calls register() again
RegistrationSettles_Retry(ok) ==
    /\ worker.registration = "pending"
    /\ worker' = IF ok THEN [worker EXCEPT !.registration = "registered"]
                 ELSE IF worker.registerCalls = 1
                 THEN [worker EXCEPT !.registerCalls = @ + 1]
                 ELSE [worker EXCEPT !.registration = "failed"]
    /\ last' = Ran(IF ok THEN "registered" ELSE "registration failed")
    /\ UNCHANGED <<envVars, promptVars, buttonVars, dialogVars, serviceWorker, timer>>
RegistrationSettles(ok) ==
    /\ worker.registration = "pending"
    /\ worker' = [worker EXCEPT !.registration = IF ok THEN "registered" ELSE "failed"]
    /\ last' = Ran(IF ok THEN "registered" ELSE "registration failed")
    /\ UNCHANGED <<envVars, promptVars, buttonVars, dialogVars, serviceWorker, timer>>

Install ==
    \/ BeforeInstallPrompt
    \/ ProactiveTimer
    \/ \E b \in ButtonIds : ClickPrompt(b)
    \/ \E b \in ButtonIds : ClickFallback(b)
    \/ \E e \in 1..MaxPromptCalls, o \in Outcomes : UserChoice(e, o)
    \/ AppInstalled

Next ==
    \/ Install
    \/ \E d \in DialogIds : GotIt(d)
    \/ FadeTimer

\* the install flow and its dialogs.  The entry timer and the worker
\* registration write only animTimers and worker, which no handler of the
\* install flow reads; SpecWorker runs them together with the install flow.
Spec == Init /\ [][Next]_vars

\* every combination of the environment signals; the dialogs stay open
SpecSignals == InitSignals /\ [][Install]_vars

\* the install flow together with the entry timers and the worker
\* registration; the dialogs stay open
NextWorker ==
    \/ Install
    \/ \E b \in ButtonIds : AnimationTimer(b)
    \/ Load
    \/ \E ok \in BOOLEAN : RegistrationSettles(ok)

SpecWorker == InitWorker /\ [][NextWorker]_vars

\* ================================================================ claims
ResolveStep == last'.op = "userChoice"
ClickStep == last'.op \in {"click", "fallback"}
TimerStep == timer = "pending" /\ timer' = "fired"
Newest(seq) == seq[Len(seq)]
StandaloneSignal == displayModeStandalone \/ navStandalone = "true"

\* C1: whenever the userChoice of a prompted event resolves, with either
\* outcome, the resumed click handlers leave deferredPrompt null and their
\* button out of the document, and no handler stays suspended on that event
\* (it is no longer reachable), so the clearing happens once.
C1_OutcomeClearsHandleAndButton ==
    [][ResolveStep =>
           /\ deferredPrompt' = 0
           /\ (last'.btn \ {0}) \cap Range(taskbar') = {}
           /\ last'.outcome \in Outcomes
           /\ Len(events') < Len(events)]_vars
C1_Witness ==
    /\ last.op = "userChoice"
    /\ last.outcome = "dismissed"
    /\ last.btn \ {0} # {}
    /\ deferredPrompt = 0
    /\ taskbar = <<>>

\* C2: the document never holds more than one #pwaInstallBtn, and right after
\* createInstallButton has run with the container present it holds exactly one.
C2_AtMostOneButton ==
    /\ Len(taskbar) <= 1
    /\ (last.op \in {"beforeinstallprompt", "timer"} /\ container => Len(taskbar) = 1)
\* createInstallButton ran while the button was there and created nothing
C2_Witness ==
    /\ last.op = "beforeinstallprompt"
    /\ last.btn = {}
    /\ Len(taskbar) = 1

\* C3: whenever deferredPrompt holds an event, the install button is in the
\* document.
C3_ArmedImpliesButton == deferredPrompt # 0 => taskbar # <<>>

\* C4: prompt() is invoked at most once on any one event.
C4_PromptAtMostOnce == \A e \in DOMAIN events : events[e].promptCalls <= 1

\* C5: when the media query matches or navigator.standalone is true at
\* startup, the proactive timer is never set and never runs.
C5_StandaloneNoProactive ==
    StandaloneSignal => (timer = "none" /\ last.op # "timer")
\* an Apple platform, standalone, whose button came from beforeinstallprompt
C5_Witness ==
    /\ StandaloneSignal
    /\ platform = MacIntel
    /\ timer = "none"
    /\ taskbar # <<>>

\* C6: in Safari on an iPhone, in a tab, with no beforeinstallprompt event
\* reachable (none was ever delivered, or all were used up): the proactive
\* timer is set; when it fires with no button there it creates the button
\* (as amended: provided the container exists); a click on the button opens
\* an iOS dialog and touches neither deferredPrompt nor any event.
IosSafariTab ==
    /\ userAgent = UaIPhone
    /\ platform = PlatIPhone
    /\ ~displayModeStandalone
    /\ navStandalone = "false"
IosClickOpensDialog ==
    ClickStep =>
        /\ last'.op = "fallback"
        /\ Len(body') = Len(body) + 1
        /\ dialogType'[Newest(body')] = "iOS"
        /\ UNCHANGED <<events, deferredPrompt, taskbar>>
IosTimerCreatesButton ==
    /\ taskbar' # <<>>
    /\ last'.btn = Range(taskbar')
C6_IosProactiveGivenContainer ==
    /\ [](IosSafariTab => timer # "none")
    /\ [][IosSafariTab /\ events = <<>> =>
            /\ (TimerStep /\ taskbar = <<>> /\ container => IosTimerCreatesButton)
            /\ IosClickOpensDialog]_vars
C6_Original ==
    /\ [](IosSafariTab => timer # "none")
    /\ [][IosSafariTab /\ events = <<>> =>
            /\ (TimerStep /\ taskbar = <<>> => IosTimerCreatesButton)
            /\ IosClickOpensDialog]_vars
C6_Witness ==
    /\ IosSafariTab
    /\ events = <<>>
    /\ timer = "fired"
    /\ taskbar # <<>>
    /\ last.op = "fallback"
    /\ body # <<>>
    /\ dialogType[Newest(body)] = "iOS"

\* C7: the appinstalled listener always leaves the document without an
\* install button and never throws; when there was no button it changes
\* nothing.
C7_InstalledRemovesButton ==
    [][last'.op = "appinstalled" =>
           /\ taskbar' = <<>>
           /\ ~last'.threw
           /\ (taskbar = <<>> =>
                  UNCHANGED <<envVars, promptVars, taskbar, dialogVars, timer>>)]_vars
\* appinstalled handled when no button was there
C7_Witness ==
    /\ last.op = "appinstalled"
    /\ last.btn = {}
    /\ ~last.threw
    /\ taskbar = <<>>

\* C8: once the appinstalled listener has run, deferredPrompt holds no event.
C8_InstalledClearsHandle == last.op = "appinstalled" => deferredPrompt = 0

\* C9: a fallback click renders a dialog exactly when the platform is iOS,
\* iPadOS or macOS and neither the media query nor navigator.standalone
\* reports standalone.
C9_DialogIffAppleNotStandalone ==
    last.op = "fallback" =>
        (body # <<>> <=>
            /\ (detect_isIos \/ detect_isIpadOS \/ detect_isMac)
            /\ ~StandaloneSignal)

\* C10: with platform MacIntel and more than one touch point.  Original: at
\* the click fallback and at the startup check the iPadOS flag is set and the
\* Mac flag is not.  As amended: the click fallback sets the iPadOS flag and
\* not the Mac flag and its dialog is the iPad one; the startup check sets its
\* iPadOS and iOS flags and, not standalone, sets the timer, while its Mac
\* flag is the raw platform match and is set as well.
IPadSignals == platform = MacIntel /\ maxTouchPoints > 1
C10_Original ==
    IPadSignals =>
        /\ detect_isIpadOS /\ ~detect_isMac
        /\ startup_isIpadOS /\ ~startup_isMac
C10_IPadNotMacOnClick ==
    IPadSignals =>
        /\ detect_isIpadOS /\ ~detect_isMac
        /\ (navStandalone # "true" => detectAndShowInstructions = "iPad")
        /\ (last.op = "fallback" /\ navStandalone # "true" =>
               body # <<>> /\ dialogType[Newest(body)] = "iPad")
        /\ startup_isIpadOS /\ startup_isIos /\ startup_isMac
        /\ (~StandaloneSignal => timer # "none")
C10_Witness ==
    /\ IPadSignals
    /\ last.op = "fallback"
    /\ body # <<>>
    /\ dialogType[Newest(body)] = "iPad"

\* C11: with an iPhone user agent, a platform string without MAC and at most
\* one touch point, both the click fallback and the startup check classify
\* the device as iOS and neither as iPadOS nor as Mac, whatever the standalone
\* signals are; the dialog a click opens is the iOS one.
IPhoneSignalsOnly ==
    /\ userAgent = UaIPhone
    /\ platform \in {PlatIPhone, Win32}
    /\ maxTouchPoints <= 1
C11_IPhoneIsIos ==
    IPhoneSignalsOnly =>
        /\ detect_isIos /\ ~detect_isIpadOS /\ ~detect_isMac
        /\ detectAndShowInstructions =
               (IF navStandalone = "true" THEN "none" ELSE "iOS")
        /\ startup_isIos /\ ~startup_isIpadOS /\ ~startup_isMac
        /\ \A d \in Range(body) : dialogType[d] = "iOS"
        /\ (last.op = "fallback" /\ navStandalone # "true" => body # <<>>)
C11_Witness ==
    /\ IPhoneSignalsOnly
    /\ platform = Win32
    /\ maxTouchPoints = 1
    /\ last.op = "fallback"
    /\ body # <<>>
    /\ dialogType[Newest(body)] = "iOS"

\* C12: the document never holds more than one instruction modal.
C12_DialogSingleton == Len(body) <= 1

\* C13: a click on the GOT IT button of a modal that is in the document
\* leaves that modal with a pending removal timer, so that it is removed when
\* the timer fires.
C13_GotItRemovesOwnDialog ==
    [][\A d \in DialogIds : GotIt(d) => d \in Range(fadeTimers')]_vars

\* C14: every run of the beforeinstallprompt listener, in any state, leaves
\* deferredPrompt on the event just delivered (the newest reachable one, not
\* yet prompted, nobody awaiting it) with its default prevented; an event
\* stored before is no longer the stored one, and is dropped unless a click
\* handler still awaits it; with the container present the document then
\* holds exactly one install button, the one already there if there was one.
SignalStep == last'.op = "beforeinstallprompt"
C14_SignalArmsAndShowsButton ==
    [][SignalStep =>
           /\ deferredPrompt' = Len(events')
           /\ deferredPrompt' # 0
           /\ events'[deferredPrompt'] = [NewEvent EXCEPT !.defaultPrevented = TRUE]
           /\ \A i \in 1..(Len(events') - 1) : events'[i].awaiting # <<>>
           /\ (container => Len(taskbar') = 1)
           /\ (taskbar # <<>> => taskbar' = taskbar /\ last'.btn = {})
           /\ (taskbar = <<>> => last'.btn = Range(taskbar'))]_vars
\* a second signal arrived while a click handler awaits the first one
C14_Witness ==
    /\ last.op = "beforeinstallprompt"
    /\ Len(events) = 2
    /\ deferredPrompt = 2
    /\ events[1].awaiting # <<>>
    /\ last.btn = {}
    /\ Len(taskbar) = 1

\* C15: a click on the install button while deferredPrompt is null.
\* Original: it opens a dialog, invokes no prompt(), leaves deferredPrompt
\* null and the button in the document.  As amended: it invokes no prompt(),
\* leaves deferredPrompt null and the button in the document, and opens one
\* dialog exactly when the click-time detection classifies the platform as
\* iOS, iPadOS or Mac and navigator.standalone is not true; otherwise it
\* changes nothing in the document.
FallbackStep == last'.op = "fallback"
C19_ResumeKeepsNewerHandle ==
    [][/\ ResolveStep
       /\ deferredPrompt # 0
       /\ events[deferredPrompt].promptCalls = 0
       => deferredPrompt' # 0]_vars

\* C16: a step that puts a button into the document is a run of the
\* beforeinstallprompt listener or of the proactive timer, and the timer runs
\* only on an Apple platform that is not standalone.  Original: a click on a
\* button the timer created always takes the fallback branch and opens a
\* dialog.  As amended: it does so when deferredPrompt is null at the click
\* (as it is while no beforeinstallprompt has arrived); when an event has been
\* stored since, the click calls prompt() on it.
AppleSignals == userAgent \in {UaIPhone, UaIPad} \/ platform = MacIntel
ProactiveOnlyUnsignalledPath ==
    /\ Created # {} => last'.op \in {"beforeinstallprompt", "timer"}
    /\ last'.op = "timer" => AppleSignals /\ ~StandaloneSignal
    /\ last'.op = "timer" /\ Created # {} => \A b \in Created : createdBy'[b] = "timer"
ClickOnProactiveButton ==
    ClickStep /\ \E b \in last'.btn : createdBy[b] = "timer"
FallsThroughToDialog ==
    /\ last'.op = "fallback"
    /\ Len(body') = Len(body) + 1
    /\ dialogType'[Newest(body')] \in {"iOS", "iPad", "Mac"}
    /\ UNCHANGED <<events, deferredPrompt, taskbar>>
C16_Original ==
    [][/\ ProactiveOnlyUnsignalledPath
       /\ ClickOnProactiveButton => FallsThroughToDialog]_vars
C16_ProactiveButtonFallsThroughWhileIdle ==
    [][/\ ProactiveOnlyUnsignalledPath
       /\ ClickOnProactiveButton =>
              IF deferredPrompt = 0 THEN FallsThroughToDialog
              ELSE /\ last'.op = "click"
                   /\ Prompted(events') = Prompted(events) + 1
                   /\ body' = body]_vars
\* no event was ever delivered since the timer created the button; the
\* click on it opened a dialog
C16_Witness ==
    /\ last.op = "fallback"
    /\ \E b \in last.btn : createdBy[b] = "timer"
    /\ events = <<>>
    /\ timer = "fired"
    /\ body # <<>>

\* C17: while #taskbarContainer is absent, a run of createInstallButton, from
\* the beforeinstallprompt listener or from the proactive timer, creates no
\* button and sets no entry timer, does not throw, and does not touch
\* deferredPrompt: after the timer it is what it was, after the listener it
\* is the event the listener stored before the call.  No button means no
\* click listener: no click is ever handled.
CreateStep == last'.op \in {"beforeinstallprompt", "timer"}
C17_NoContainerNoOp ==
    /\ [](~container => taskbar = <<>> /\ animTimers = {})
    /\ [][~container =>
            /\ ~ClickStep
            /\ last'.op # "animation"
            /\ CreateStep =>
                   /\ UNCHANGED <<buttonVars, dialogVars, workerVars>>
                   /\ last'.btn = {}
                   /\ ~last'.threw
                   /\ last'.op = "timer" => UNCHANGED promptVars
                   /\ last'.op = "beforeinstallprompt" =>
                          /\ deferredPrompt' = Len(events')
                          /\ events'[deferredPrompt'] =
                                 [NewEvent EXCEPT !.defaultPrevented = TRUE]]_vars
\* both callers have run without a container; the event is stored
C17_Witness ==
    /\ ~container
    /\ timer = "fired"
    /\ last.op = "beforeinstallprompt"
    /\ deferredPrompt # 0
    /\ taskbar = <<>>
    /\ animTimers = {}

\* C18: register() is called at most once, only in the load listener and
\* only when navigator.serviceWorker exists; once the registration has
\* settled, as registered or as failed, the worker state never changes again
\* (no retry); the steps of the registration change nothing of the install
\* flow and the install flow's handlers change nothing of the registration.
WorkerOps == {"load", "registered", "registration failed"}
C18_RegistrationOnceAndTerminal ==
    /\ [](/\ worker.registerCalls <= 1
          /\ (worker.registerCalls = 1 <=> worker.load = "fired")
          /\ (worker.registerCalls = 1 <=> worker.registration # "none")
          /\ (~serviceWorker => worker.registerCalls = 0))
    /\ [][/\ worker.registration \in {"registered", "failed"} => worker' = worker
          /\ worker' # worker =>
                 /\ last'.op \in WorkerOps
                 /\ UNCHANGED <<envVars, promptVars, buttonVars, dialogVars, timer>>
          /\ last'.op \notin WorkerOps => worker' = worker]_vars
\* after a failed registration a signal was stored and the click prompted
C18_Witness ==
    /\ worker.registration = "failed"
    /\ worker.registerCalls = 1
    /\ last.op = "click"
    /\ deferredPrompt # 0
    /\ events[deferredPrompt].promptCalls = 1

====
